---- MODULE Spec2Model ----
(***************************************************************************)
(* Paper-doll ragdoll: boundary activation state machine (createBounds,    *)
(* collisionStart handler), edge repositioning controller (beforeUpdate    *)
(* handler) and the resize listener of src/script.js.                      *)
(*                                                                         *)
(* Units.  JavaScript numbers are modelled by integers in fixed units:     *)
(*   - collider centres are stored doubled (x2 = 2*x, y2 = 2*y) so that    *)
(*     w / 2 and h / 2 are exact for odd w and h;                          *)
(*   - gravity scale is in thousandths (0.001 -> 1);                       *)
(*   - forces are in units of 1/10000 (RESTORE_FORCE_BASE 0.0002 -> 2);    *)
(*   - velocities are in tenths, and the physics step only produces        *)
(*     multiples of 5 tenths, so that multiplying by 0.6 is exact.         *)
(***************************************************************************)
EXTENDS Integers, Sequences, FiniteSets, TLC

\* ---------------------------------------------------------------- bounds
\* Body ids handed out by Bodies.rectangle are capped at MaxBodyId.
MaxBodyId == 13
\* A collisionStart event reports between 1 and MaxPairs pairs.
MaxPairs == 2
\* The history counter of qualifying collision events saturates here.
MaxQualifying == 2

\* ------------------------------------------------------ program constants
thickness == 100
EDGE_MARGIN == 6
\* 0.0002, in units of 1/10000
RESTORE_FORCE_BASE == 2
\* 0.6, in tenths
RESTORE_VELOCITY_DAMP == 6
\* world.gravity.scale = 0.001, in thousandths
GRAVITY_SCALE == 1
\* world.gravity.y = 1
GRAVITY_Y == 1

\* Body ids: the initial bottom wall is created first, then the parts.
head == 2
torso == 3
\* ragdollParts, in push order (two of the ten limbs are modelled)
ragdollParts == <<head, torso>>
Parts == {ragdollParts[i] : i \in 1..Len(ragdollParts)}

\* ------------------------------------------------------------ input sets
\* window.innerWidth / window.innerHeight values delivered by the host
Viewports == {<<40, 30>>, <<10, 30>>, <<40, 20>>}
\* positions the physics step (or a drag) can leave a part at
PosChoices ==
  { [x |-> 5, y |-> 6], [x |-> 6, y |-> 6], [x |-> 34, y |-> 24], [x |-> 35, y |-> 25] }
\* linear velocity (tenths) and angular velocity the physics step can produce
MotionChoices ==
  { [x |-> 0, y |-> 0, a |-> 0], [x |-> 10, y |-> -5, a |-> 1] }
\* body.mass of the parts (density 0.001 x area, rounded): 60x60 head, 80x120 torso
PartMass(p) == IF p = head THEN 4 ELSE 10

VARIABLES
  canvasW, canvasH,          \* render.canvas.width / height
  bounds,                    \* the bounds record: top, bottom, left, right
  boundsActivated,           \* let boundsActivated
  gravityDisabledOnGround,   \* let gravityDisabledOnGround
  gravity,                   \* world.gravity: x, y, scale
  worldBodies,               \* ids of the bodies in world.bodies
  nextId,                    \* next id Bodies.rectangle hands out
  position, velocity, angularVelocity, force, mass,   \* per ragdoll part
  lastEvent,                 \* the callback that ran last ("beforeUpdate": inside Engine.update)
  qualifying,                \* history: bottom-wall landing events seen (saturating)
  startup,                   \* script start: pc, the Matter global, the canvas, console output
  fault                      \* per part: the fault that hit it in the last beforeUpdate pass

vars == <<canvasW, canvasH, bounds, boundsActivated, gravityDisabledOnGround,
          gravity, worldBodies, nextId, position, velocity, angularVelocity,
          force, mass, lastEvent, qualifying, startup, fault>>

hostVars == <<startup, fault>>

partVars == <<position, velocity, angularVelocity, force, mass>>

\* ---------------------------------------------------------------- bodies
\* An empty slot of the bounds record (null).
NoBody == [id |-> 0, x2 |-> 0, y2 |-> 0, w |-> 0, h |-> 0]

\* Bodies.rectangle(x, y, w, h, {isStatic: true}); the centre is kept doubled.
Rectangle(id, x2, y2, w, h) == [id |-> id, x2 |-> x2, y2 |-> y2, w |-> w, h |-> h]

isStatic(b) == b \notin Parts

Sides == {"top", "bottom", "left", "right"}

\* Object.values(bounds) restricted to the non-null entries, as ids.
BoundIds(bs) == {bs[s].id : s \in {t \in Sides : bs[t] # NoBody}}

\* ----------------------------------------------------------- createBounds
\* mutant: the right wall is centred on the canvas edge instead of half a
\* thickness outside it
NewBoundsRightOnEdge(full, w, h, id) ==
  [ bottom |-> Rectangle(id, w, 2 * h + thickness, w + thickness * 2, thickness),
    top    |-> IF full
               THEN Rectangle(id + 1, w, -thickness, w + thickness * 2, thickness)
               ELSE NoBody,
    left   |-> IF full
               THEN Rectangle(id + 2, -thickness, h, thickness, h + thickness * 2)
               ELSE NoBody,
    right  |-> IF full
               THEN Rectangle(id + 3, 2 * w, h, thickness, h + thickness * 2)
               ELSE NoBody ]

\* The bodies createBounds builds for canvas size w x h, ids from id upward
\* (bottom first, then top, left, right).  Centres are doubled:
\*   bottom (w/2, h + thickness/2)   top  (w/2, -thickness/2)
\*   left (-thickness/2, h/2)        right (w + thickness/2, h/2)
NewBounds(full, w, h, id) ==
  [ bottom |-> Rectangle(id, w, 2 * h + thickness, w + thickness * 2, thickness),
    top    |-> IF full
               THEN Rectangle(id + 1, w, -thickness, w + thickness * 2, thickness)
               ELSE NoBody,
    left   |-> IF full
               THEN Rectangle(id + 2, -thickness, h, thickness, h + thickness * 2)
               ELSE NoBody,
    right  |-> IF full
               THEN Rectangle(id + 3, 2 * w + thickness, h, thickness, h + thickness * 2)
               ELSE NoBody ]

\* mutant: only the old bottom wall is removed
RemoveBoundsBottomOnly(world, bs) == world \ {bs.bottom.id}

\* Object.values(bounds).forEach(b => { if (b) World.remove(world, b) })
RemoveBounds(world, bs) == world \ BoundIds(bs)

\* World.add(world, [top, bottom, left, right])  /  World.add(world, [bottom])
AddBounds(world, full, nb) ==
  IF full
  THEN world \cup {nb.top.id, nb.bottom.id, nb.left.id, nb.right.id}
  ELSE world \cup {nb.bottom.id}

\* mutant: the wall span is taken from the old bottom wall instead of the canvas
createBoundsFromOldWall(b, full, w, h) ==
  LET span == IF b.bounds.bottom = NoBody THEN w ELSE b.bounds.bottom.w
      nb == NewBounds(full, span, h, b.nextId) IN
  [ bounds          |-> nb,
    worldBodies     |-> AddBounds(RemoveBounds(b.worldBodies, b.bounds), full, nb),
    boundsActivated |-> full,
    nextId          |-> b.nextId + (IF full THEN 4 ELSE 1) ]

\* mutant: the full flag is ignored and all four walls are always built
createBoundsAlwaysFull(b, full, w, h) ==
  LET nb == NewBounds(TRUE, w, h, b.nextId) IN
  [ bounds          |-> nb,
    worldBodies     |-> AddBounds(RemoveBounds(b.worldBodies, b.bounds), TRUE, nb),
    boundsActivated |-> TRUE,
    nextId          |-> b.nextId + 4 ]

\* mutant: boundsActivated is not updated by the rebuild
createBoundsFlagStale(b, full, w, h) ==
  LET nb == NewBounds(full, w, h, b.nextId) IN
  [ bounds          |-> nb,
    worldBodies     |-> AddBounds(RemoveBounds(b.worldBodies, b.bounds), full, nb),
    boundsActivated |-> b.boundsActivated,
    nextId          |-> b.nextId + (IF full THEN 4 ELSE 1) ]

\* createBounds(full) on the boundary state
\*   b = [bounds, worldBodies, boundsActivated, nextId], canvas size w x h.
createBounds(b, full, w, h) ==
  LET nb == NewBounds(full, w, h, b.nextId) IN
  [ bounds          |-> nb,
    worldBodies     |-> AddBounds(RemoveBounds(b.worldBodies, b.bounds), full, nb),
    boundsActivated |-> full,
    nextId          |-> b.nextId + (IF full THEN 4 ELSE 1) ]

\* ids createBounds(full) consumes; Bodies.rectangle stops at MaxBodyId
IdsAvailable(full) == nextId + (IF full THEN 4 ELSE 1) <= MaxBodyId + 1

BoundaryState ==
  [ bounds |-> bounds, worldBodies |-> worldBodies,
    boundsActivated |-> boundsActivated, nextId |-> nextId ]

SetBoundaryState(b) ==
  /\ bounds' = b.bounds
  /\ worldBodies' = b.worldBodies
  /\ boundsActivated' = b.boundsActivated
  /\ nextId' = b.nextId

\* ------------------------------------------------------------------- Init
\* Math.round(n / 2)
RoundHalf(n) == (n + 1) \div 2

ZeroVec == [x |-> 0, y |-> 0]

\* What the top-level code of the script builds in a viewport of w x h.
Construction(w, h) ==
  LET b0 == createBounds([bounds |-> [s \in Sides |-> NoBody], worldBodies |-> {},
                          boundsActivated |-> FALSE, nextId |-> 1],
                         FALSE, w, h)
  IN [ canvasW |-> w, canvasH |-> h,
       gravity |-> [x |-> 0, y |-> GRAVITY_Y, scale |-> GRAVITY_SCALE],
       bounds |-> b0.bounds,
       boundsActivated |-> b0.boundsActivated,
       worldBodies |-> b0.worldBodies \cup Parts,
       nextId |-> torso + 1,
       position |-> [p \in Parts |->
                       [x |-> RoundHalf(w),
                        y |-> RoundHalf(h) - (IF p = head THEN 150 ELSE 60)]],
       velocity |-> [p \in Parts |-> ZeroVec],
       angularVelocity |-> [p \in Parts |-> 0],
       force |-> [p \in Parts |-> ZeroVec],
       mass |-> [p \in Parts |-> PartMass(p)],
       gravityDisabledOnGround |-> FALSE ]

\* The state the script has built once its top-level code has run.
Constructed ==
  \E v \in Viewports :
    LET c == Construction(v[1], v[2])
    IN /\ canvasW = c.canvasW
       /\ canvasH = c.canvasH
       /\ gravity = c.gravity
       /\ bounds = c.bounds
       /\ boundsActivated = c.boundsActivated
       /\ worldBodies = c.worldBodies
       /\ nextId = c.nextId
       /\ position = c.position
       /\ velocity = c.velocity
       /\ angularVelocity = c.angularVelocity
       /\ force = c.force
       /\ mass = c.mass
       /\ gravityDisabledOnGround = c.gravityDisabledOnGround
       /\ lastEvent = "init"
       /\ qualifying = 0

\* no part's state faults during a beforeUpdate pass
NoFault == [p \in Parts |-> "none"]

\* the script started with Matter loaded and the canvas #world in the page
Started ==
  [pc |-> "running", matter |-> TRUE, canvas |-> "dom", log |-> {}]

Init ==
  /\ Constructed
  /\ startup = Started
  /\ fault = NoFault

\* ------------------------------------------------- collisionStart handler
\* A pair is <<bodyA, bodyB>> (body ids).  Matter reports pairs of distinct
\* bodies of the world, at least one of them non-static.
\* The modelled pairs: part against part, the bottom wall on either side of a
\* part, and a part against another wall when there is one.
PairsOf(bs) ==
  {<<head, torso>>, <<bs.bottom.id, head>>, <<torso, bs.bottom.id>>}
    \cup (IF bs.top # NoBody THEN {<<head, bs.top.id>>} ELSE {})

EventsOf(bs) == UNION {[1..n -> PairsOf(bs)] : n \in 1..MaxPairs}

\* pair.bodyA === bounds.bottom || pair.bodyB === bounds.bottom
TouchesBottom(pr, bottom) == pr[1] = bottom.id \/ pr[2] = bottom.id

\* const other = (pair.bodyA === bounds.bottom) ? pair.bodyB : pair.bodyA
OtherBody(pr, bottom) == IF pr[1] = bottom.id THEN pr[2] ELSE pr[1]

\* the pair is (bottom wall, non-static body)
Qualifies(pr, bottom) == TouchesBottom(pr, bottom) /\ ~isStatic(OtherBody(pr, bottom))

\* mutant: the early return is missing
AlreadyLandedNever(activated, latch) == FALSE

\* if (boundsActivated && gravityDisabledOnGround) return;
AlreadyLanded(activated, latch) == activated /\ latch

\* mutant: the isStatic test is inverted, so no part is touched
ZeroedVelocityStaticOnly(world, vel) ==
  [p \in Parts |-> IF p \in world /\ isStatic(p) THEN ZeroVec ELSE vel[p]]

\* (world.bodies || []).forEach(b => { if (!b.isStatic) Body.setVelocity(b, {x: 0, y: 0}) })
ZeroedVelocity(world, vel) ==
  [p \in Parts |-> IF p \in world /\ ~isStatic(p) THEN ZeroVec ELSE vel[p]]

\* ... Body.setAngularVelocity(b, 0)
ZeroedAngular(world, av) ==
  [p \in Parts |-> IF p \in world /\ ~isStatic(p) THEN 0 ELSE av[p]]

\* mutant: landing rebuilds the bounds but leaves gravity on
LandKeepsGravity(st, w, h) ==
  LET g == IF ~st.latch
           THEN [st EXCEPT !.latch = TRUE,
                           !.velocity = ZeroedVelocity(st.b.worldBodies, st.velocity),
                           !.angularVelocity = ZeroedAngular(st.b.worldBodies, st.angularVelocity)]
           ELSE st
  IN [g EXCEPT !.b = createBounds(g.b, TRUE, w, h)]

\* The body of `if (!other.isStatic) { ... }` on the handler state st.
Land(st, w, h) ==
  LET g == IF ~st.latch
           THEN [st EXCEPT !.gravity = [x |-> 0, y |-> 0, scale |-> 0],
                           !.latch = TRUE,
                           !.velocity = ZeroedVelocity(st.b.worldBodies, st.velocity),
                           !.angularVelocity = ZeroedAngular(st.b.worldBodies, st.angularVelocity)]
           ELSE st
  IN [g EXCEPT !.b = createBounds(g.b, TRUE, w, h)]

\* mutant: only the first pair of the event is inspected
ScanPairsFirstOnly(st, pairs, i, w, h) ==
  IF i > Len(pairs) THEN st
  ELSE IF Qualifies(pairs[i], st.b.bounds.bottom)
       THEN Land(st, w, h)
       ELSE st

\* for (let pair of event.pairs) { ... break; }  from pair i on
RECURSIVE ScanPairs(_, _, _, _, _)
ScanPairs(st, pairs, i, w, h) ==
  IF i > Len(pairs) THEN st
  ELSE IF Qualifies(pairs[i], st.b.bounds.bottom)
       THEN Land(st, w, h)
       ELSE ScanPairs(st, pairs, i + 1, w, h)

\* The whole collisionStart callback on the handler state st.
OnCollisionStart(st, pairs, w, h) ==
  IF AlreadyLanded(st.b.boundsActivated, st.latch) THEN st
  ELSE ScanPairs(st, pairs, 1, w, h)

\* the event reports at least one (bottom wall, non-static body) pair
IsQualifyingEvent(pairs) ==
  \E i \in 1..Len(pairs) : Qualifies(pairs[i], bounds.bottom)

CollisionStart ==
  \E pairs \in EventsOf(bounds) :
    LET st == [gravity |-> gravity, latch |-> gravityDisabledOnGround,
               velocity |-> velocity, angularVelocity |-> angularVelocity,
               b |-> BoundaryState]
        r == OnCollisionStart(st, pairs, canvasW, canvasH)
    IN /\ lastEvent # "beforeUpdate"
       /\ r.b.nextId <= MaxBodyId + 1
       /\ gravity' = r.gravity
       /\ gravityDisabledOnGround' = r.latch
       /\ velocity' = r.velocity
       /\ angularVelocity' = r.angularVelocity
       /\ SetBoundaryState(r.b)
       /\ lastEvent' = IF IsQualifyingEvent(pairs) THEN "collisionBottom" ELSE "collisionOther"
       /\ qualifying' = IF IsQualifyingEvent(pairs) /\ qualifying < MaxQualifying
                        THEN qualifying + 1 ELSE qualifying
       /\ UNCHANGED <<canvasW, canvasH, position, force, mass>>
       /\ UNCHANGED hostVars

\* ---------------------------------------------------- beforeUpdate handler
\* mutant: the left test includes the margin itself
LeftOutInclusive(pos) == pos.x <= EDGE_MARGIN

LeftOut(pos) == pos.x < EDGE_MARGIN
RightOut(pos, w) == pos.x > w - EDGE_MARGIN
TopOut(pos) == pos.y < EDGE_MARGIN
BottomOut(pos, h) == pos.y > h - EDGE_MARGIN

\* let outside
Outside(pos, w, h) == LeftOut(pos) \/ RightOut(pos, w) \/ TopOut(pos) \/ BottomOut(pos, h)

\* let force, after the four edge tests (units of 1/10000)
RestoreForce(pos, w, h) ==
  [ x |-> (IF LeftOut(pos) THEN RESTORE_FORCE_BASE * (EDGE_MARGIN - pos.x) ELSE 0)
        + (IF RightOut(pos, w) THEN RESTORE_FORCE_BASE * ((w - EDGE_MARGIN) - pos.x) ELSE 0),
    y |-> (IF TopOut(pos) THEN RESTORE_FORCE_BASE * (EDGE_MARGIN - pos.y) ELSE 0)
        + (IF BottomOut(pos, h) THEN RESTORE_FORCE_BASE * ((h - EDGE_MARGIN) - pos.y) ELSE 0) ]

\* const mass = (b.mass || 1)
MassOrOne(m) == IF m = 0 THEN 1 ELSE m

\* mutant: the force is not scaled by the mass
AppliedForceUnscaled(pos, w, h, m) ==
  [ x |-> RestoreForce(pos, w, h).x, y |-> RestoreForce(pos, w, h).y ]

\* the force handed to Body.applyForce
AppliedForce(pos, w, h, m) ==
  [ x |-> RestoreForce(pos, w, h).x * MassOrOne(m),
    y |-> RestoreForce(pos, w, h).y * MassOrOne(m) ]

\* v * RESTORE_VELOCITY_DAMP (exact on multiples of 5 tenths)
Damp(v) == (v * RESTORE_VELOCITY_DAMP) \div 10

\* mutant: only the x component is damped
DampedVelocityXOnly(vel) == [x |-> Damp(vel.x), y |-> vel.y]

\* { x: b.velocity.x * RESTORE_VELOCITY_DAMP, y: b.velocity.y * RESTORE_VELOCITY_DAMP }
DampedVelocity(vel) == [x |-> Damp(vel.x), y |-> Damp(vel.y)]

\* mutant: the velocity is damped only when the accumulated force is non-zero
NudgedIfForce(activated, p, pos, w, h) ==
  activated /\ ~isStatic(p) /\ Outside(pos, w, h) /\ RestoreForce(pos, w, h) # ZeroVec

\* mutant: the controller does not wait for full bounds
NudgedAlways(activated, p, pos, w, h) == ~isStatic(p) /\ Outside(pos, w, h)

\* if (!boundsActivated) return;   and   if (!b || b.isStatic) continue;  if (outside)
Nudged(activated, p, pos, w, h) == activated /\ ~isStatic(p) /\ Outside(pos, w, h)

BeforeUpdate ==
  /\ lastEvent # "beforeUpdate"
  /\ fault = NoFault
  /\ force' = [p \in Parts |->
        IF Nudged(boundsActivated, p, position[p], canvasW, canvasH)
        THEN [x |-> force[p].x + AppliedForce(position[p], canvasW, canvasH, mass[p]).x,
              y |-> force[p].y + AppliedForce(position[p], canvasW, canvasH, mass[p]).y]
        ELSE force[p]]
  /\ velocity' = [p \in Parts |->
        IF Nudged(boundsActivated, p, position[p], canvasW, canvasH)
        THEN DampedVelocity(velocity[p])
        ELSE velocity[p]]
  /\ lastEvent' = "beforeUpdate"
  /\ UNCHANGED <<canvasW, canvasH, bounds, boundsActivated, gravityDisabledOnGround,
                 gravity, worldBodies, nextId, position, angularVelocity, mass,
                 qualifying>>
  /\ fault' = NoFault
  /\ UNCHANGED startup

\* The rest of Engine.update: the bodies move (integration, constraints, mouse
\* drag) to any of the modelled positions and motions, and the force
\* accumulators are cleared.  Engine.update runs to completion: no other
\* callback runs between its beforeUpdate event and this.  After a pass that
\* threw, this is the next Engine.update that completes.
Update ==
  /\ lastEvent = "beforeUpdate" \/ fault # NoFault
  /\ position' \in [Parts -> PosChoices]
  /\ \E m \in [Parts -> MotionChoices] :
       /\ velocity' = [p \in Parts |-> [x |-> m[p].x, y |-> m[p].y]]
       /\ angularVelocity' = [p \in Parts |-> m[p].a]
  /\ force' = [p \in Parts |-> ZeroVec]
  /\ lastEvent' = "update"
  /\ UNCHANGED <<canvasW, canvasH, bounds, boundsActivated, gravityDisabledOnGround,
                 gravity, worldBodies, nextId, mass, qualifying>>
  /\ fault' = NoFault
  /\ UNCHANGED startup

\* --------------------------------------------------------- resize listener
\* mutant: the listener calls createBounds() with its default, full = false
ResizeDefaultBounds ==
  \E v \in Viewports :
    /\ lastEvent # "beforeUpdate"
    /\ IdsAvailable(FALSE)
    /\ canvasW' = v[1]
    /\ canvasH' = v[2]
    /\ SetBoundaryState(createBounds(BoundaryState, FALSE, v[1], v[2]))
    /\ lastEvent' = "resize"
    /\ UNCHANGED <<gravityDisabledOnGround, gravity, position, velocity,
                   angularVelocity, force, mass, qualifying>>
    /\ UNCHANGED hostVars

Resize ==
  \E v \in Viewports :
    /\ lastEvent # "beforeUpdate"
    /\ IdsAvailable(boundsActivated)
    /\ canvasW' = v[1]
    /\ canvasH' = v[2]
    /\ SetBoundaryState(createBounds(BoundaryState, boundsActivated, v[1], v[2]))
    /\ lastEvent' = "resize"
    /\ UNCHANGED <<gravityDisabledOnGround, gravity, position, velocity,
                   angularVelocity, force, mass, qualifying>>
    /\ UNCHANGED hostVars

Next == CollisionStart \/ BeforeUpdate \/ Update \/ Resize

Spec == Init /\ [][Next]_vars

\* ------------------------------------- beforeUpdate pass with a part fault
\* Where the state of a part can fault during the pass:
\*   "position"    reading b.position in the edge tests (lines 331-356)
\*   "applyForce"  reading b.mass or Body.applyForce (lines 361-362)
\*   "setVelocity" reading b.velocity or Body.setVelocity (line 365)
FaultKinds == {"none", "position", "applyForce", "setVelocity"}

\* one part faults, the others do not
SingleFaults ==
  {[NoFault EXCEPT ![p] = k] : p \in Parts, k \in FaultKinds \ {"none"}}

\* for (const b of ragdollParts) { ... } from part i on, on the pass state
\* st = [force, velocity, threw].  The edge tests are outside the try block:
\* a fault there leaves the handler; a fault inside the try block is caught
\* and the loop goes on.
RECURSIVE StepParts(_, _, _, _, _)
StepParts(st, i, f, w, h) ==
  IF i > Len(ragdollParts) THEN st
  ELSE LET p == ragdollParts[i] IN
    IF isStatic(p) THEN StepParts(st, i + 1, f, w, h)
    ELSE IF f[p] = "position" THEN [st EXCEPT !.threw = TRUE]
    ELSE IF ~Outside(position[p], w, h) THEN StepParts(st, i + 1, f, w, h)
    ELSE IF f[p] = "applyForce" THEN StepParts(st, i + 1, f, w, h)
    ELSE LET a == AppliedForce(position[p], w, h, mass[p])
             forced == [st EXCEPT !.force[p] = [x |-> st.force[p].x + a.x,
                                                y |-> st.force[p].y + a.y]]
         IN IF f[p] = "setVelocity" THEN StepParts(forced, i + 1, f, w, h)
            ELSE StepParts([forced EXCEPT !.velocity[p] = DampedVelocity(st.velocity[p])],
                           i + 1, f, w, h)

\* The whole beforeUpdate callback when the parts fault as f says.
OnBeforeUpdate(st, activated, f, w, h) ==
  IF ~activated THEN st ELSE StepParts(st, 1, f, w, h)

\* A beforeUpdate pass during which one part's state faults.  An exception
\* that leaves the handler ends that Engine.update; collision and resize
\* events may follow, and the next pass the model follows is the one after
\* the next Engine.update that completes (fault is cleared there).
BeforeUpdateFaulted ==
  \E f \in SingleFaults :
    LET r == OnBeforeUpdate([force |-> force, velocity |-> velocity, threw |-> FALSE],
                            boundsActivated, f, canvasW, canvasH)
    IN /\ lastEvent # "beforeUpdate"
       /\ fault = NoFault
       /\ force' = r.force
       /\ velocity' = r.velocity
       /\ fault' = f
       /\ lastEvent' = IF r.threw THEN "beforeUpdateThrew" ELSE "beforeUpdate"
       /\ UNCHANGED <<canvasW, canvasH, bounds, boundsActivated, gravityDisabledOnGround,
                      gravity, worldBodies, nextId, position, angularVelocity, mass,
                      qualifying, startup>>

StepFaultNext == Next \/ BeforeUpdateFaulted

StepFaultSpec == Init /\ [][StepFaultNext]_vars

\* ------------------------------------------------- World.remove failures
\* try { World.remove(world, b); } catch (e) { /* ignore */ } when the call
\* throws for the colliders in failed: those stay where they were.
RemoveBoundsExcept(world, bs, failed) == world \ (BoundIds(bs) \ failed)

\* mutant: no try/catch around World.remove; the exception leaves
\* createBounds before the bounds record is reset (old colliders in the world
\* or not, as the failing call left them)
createBoundsRemoveThrows(b, full, w, h, failed) ==
  IF failed # {}
  THEN [b EXCEPT !.worldBodies = RemoveBoundsExcept(b.worldBodies, b.bounds, failed)]
  ELSE createBounds(b, full, w, h)

\* createBounds(full) when World.remove throws for the old colliders in failed
createBoundsRemoveFails(b, full, w, h, failed) ==
  LET nb == NewBounds(full, w, h, b.nextId) IN
  [ bounds          |-> nb,
    worldBodies     |-> AddBounds(RemoveBoundsExcept(b.worldBodies, b.bounds, failed),
                                  full, nb),
    boundsActivated |-> full,
    nextId          |-> b.nextId + (IF full THEN 4 ELSE 1) ]

\* which removals fail: the bottom wall's, or every old collider's
FailedRemovals(bs) == {{bs.bottom.id}, BoundIds(bs)}

\* the resize listener when World.remove throws inside createBounds
ResizeRemoveFails ==
  \E v \in Viewports, failed \in FailedRemovals(bounds) :
    /\ lastEvent # "beforeUpdate"
    /\ IdsAvailable(boundsActivated)
    /\ canvasW' = v[1]
    /\ canvasH' = v[2]
    /\ SetBoundaryState(createBoundsRemoveFails(BoundaryState, boundsActivated,
                                                v[1], v[2], failed))
    /\ lastEvent' = "resizeRemoveFailed"
    /\ UNCHANGED <<gravityDisabledOnGround, gravity, position, velocity,
                   angularVelocity, force, mass, qualifying>>
    /\ UNCHANGED hostVars

\* The steps that rebuild the colliders; the simulation steps (beforeUpdate,
\* integration) never touch them and are left out here.
RemoveFaultNext == CollisionStart \/ Resize \/ ResizeRemoveFails

RemoveFaultSpec == Init /\ [][RemoveFaultNext]_vars

\* ------------------------------------------- rebuild failures on landing
\* Where createBounds(true) can throw after its removal loop; none of these
\* calls is in a try block, in createBounds or in the collisionStart handler:
\*   "bottom"  Bodies.rectangle for the bottom wall (line 89)
\*   "top"     Bodies.rectangle for the top wall (line 92)
\*   "add"     World.add (line 95), before any collider is added
FailPoints == {"bottom", "top", "add"}

\* createBounds(full) when the call named by at throws: the old colliders are
\* out of the world, the bounds record holds what was assigned before the
\* throw, nothing was added and boundsActivated was not assigned.
createBoundsThrows(b, full, w, h, at) ==
  LET nb == NewBounds(full, w, h, b.nextId)
      none == [s \in Sides |-> NoBody] IN
  [ bounds          |-> IF at = "bottom" THEN none
                        ELSE IF at = "top" THEN [none EXCEPT !.bottom = nb.bottom]
                        ELSE nb,
    worldBodies     |-> RemoveBounds(b.worldBodies, b.bounds),
    boundsActivated |-> b.boundsActivated,
    nextId          |-> IF at = "bottom" THEN b.nextId
                        ELSE IF at = "top" THEN b.nextId + 1
                        ELSE b.nextId + (IF full THEN 4 ELSE 1) ]

\* The body of `if (!other.isStatic) { ... }` when createBounds(true) throws:
\* the statements before the call have run.
LandRebuildThrows(st, w, h, at) ==
  LET g == IF ~st.latch
           THEN [st EXCEPT !.gravity = [x |-> 0, y |-> 0, scale |-> 0],
                           !.latch = TRUE,
                           !.velocity = ZeroedVelocity(st.b.worldBodies, st.velocity),
                           !.angularVelocity = ZeroedAngular(st.b.worldBodies, st.angularVelocity)]
           ELSE st
  IN [g EXCEPT !.b = createBoundsThrows(g.b, TRUE, w, h, at)]

\* the bottom wall of the bounds record is a body of the world
FloorInWorld == bounds.bottom # NoBody /\ bounds.bottom.id \in worldBodies

\* A collisionStart event with a qualifying pair, handled while not yet
\* landed, during which createBounds(true) throws.
CollisionStartRebuildThrows ==
  \E pairs \in EventsOf(bounds), at \in FailPoints :
    LET st == [gravity |-> gravity, latch |-> gravityDisabledOnGround,
               velocity |-> velocity, angularVelocity |-> angularVelocity,
               b |-> BoundaryState]
        r == LandRebuildThrows(st, canvasW, canvasH, at)
    IN /\ lastEvent # "beforeUpdate"
       /\ FloorInWorld
       /\ ~AlreadyLanded(boundsActivated, gravityDisabledOnGround)
       /\ IsQualifyingEvent(pairs)
       /\ IdsAvailable(TRUE)
       /\ gravity' = r.gravity
       /\ gravityDisabledOnGround' = r.latch
       /\ velocity' = r.velocity
       /\ angularVelocity' = r.angularVelocity
       /\ SetBoundaryState(r.b)
       /\ lastEvent' = "collisionThrew"
       /\ qualifying' = IF qualifying < MaxQualifying THEN qualifying + 1 ELSE qualifying
       /\ UNCHANGED <<canvasW, canvasH, position, force, mass>>
       /\ UNCHANGED hostVars

\* Collisions with the bottom wall need it in the world.
LandFaultNext ==
  \/ (FloorInWorld /\ CollisionStart)
  \/ BeforeUpdate
  \/ Update
  \/ Resize
  \/ CollisionStartRebuildThrows

LandFaultSpec == Init /\ [][LandFaultNext]_vars

\* ---------------------------------------------------------------- startup
\* The top-level code of the script, run once when the page loads it.
\* startup.pc is the position in that code, startup.matter whether the page
\* loaded the Matter global, startup.canvas what #world is ("dom" found in
\* the page, "missing", "fallback" created by the script), startup.log the
\* diagnostics written with console.warn / console.error.

\* nothing of the simulation exists before the script runs
Unloaded ==
  /\ canvasW = 0 /\ canvasH = 0
  /\ gravity = [x |-> 0, y |-> 0, scale |-> 0]
  /\ bounds = [s \in Sides |-> NoBody]
  /\ boundsActivated = FALSE
  /\ worldBodies = {}
  /\ nextId = 1
  /\ position = [p \in Parts |-> ZeroVec]
  /\ velocity = [p \in Parts |-> ZeroVec]
  /\ angularVelocity = [p \in Parts |-> 0]
  /\ force = [p \in Parts |-> ZeroVec]
  /\ mass = [p \in Parts |-> 0]
  /\ gravityDisabledOnGround = FALSE
  /\ lastEvent = "unloaded"
  /\ qualifying = 0

simVars ==
  <<canvasW, canvasH, bounds, boundsActivated, gravityDisabledOnGround, gravity,
    worldBodies, nextId, position, velocity, angularVelocity, force, mass,
    lastEvent, qualifying>>

BootInit ==
  /\ Unloaded
  /\ fault = NoFault
  /\ \E m \in BOOLEAN, c \in {"dom", "missing"} :
       startup = [pc |-> "load", matter |-> m, canvas |-> c, log |-> {}]

\* const { Engine, ... } = Matter; Engine.create().  Without the Matter
\* global the destructuring throws; nothing catches it and the script ends.
LoadScript ==
  /\ startup.pc = "load"
  /\ startup' = [startup EXCEPT !.pc = IF startup.matter THEN "canvas" ELSE "crashed"]
  /\ UNCHANGED <<simVars, fault>>

\* let canvas = document.getElementById("world"); if (!canvas) { ... }
FindCanvas ==
  /\ startup.pc = "canvas"
  /\ startup' = IF startup.canvas = "missing"
                THEN [startup EXCEPT !.pc = "start", !.canvas = "fallback",
                                     !.log = @ \cup {"canvas-fallback"}]
                ELSE [startup EXCEPT !.pc = "start"]
  /\ UNCHANGED <<simVars, fault>>

\* if (typeof Matter === 'undefined') console.error(...) else { try {
\* Render.run; Runner.run } catch (err) { console.error(...) } }
\* Render.run and Runner.run are taken to succeed.
GuardedStart ==
  /\ startup.pc = "start"
  /\ startup' = IF ~startup.matter
                THEN [startup EXCEPT !.pc = "build", !.log = @ \cup {"matter-unavailable"}]
                ELSE [startup EXCEPT !.pc = "build"]
  /\ UNCHANGED <<simVars, fault>>

\* the rest of the script: boundaries, ragdoll, handlers registered
Build ==
  /\ startup.pc = "build"
  /\ \E v \in Viewports :
       LET c == Construction(v[1], v[2])
       IN /\ canvasW' = c.canvasW
          /\ canvasH' = c.canvasH
          /\ gravity' = c.gravity
          /\ bounds' = c.bounds
          /\ boundsActivated' = c.boundsActivated
          /\ worldBodies' = c.worldBodies
          /\ nextId' = c.nextId
          /\ position' = c.position
          /\ velocity' = c.velocity
          /\ angularVelocity' = c.angularVelocity
          /\ force' = c.force
          /\ mass' = c.mass
          /\ gravityDisabledOnGround' = c.gravityDisabledOnGround
  /\ lastEvent' = "init"
  /\ qualifying' = 0
  /\ startup' = [startup EXCEPT !.pc = "running"]
  /\ UNCHANGED fault

BootNext ==
  \/ LoadScript
  \/ FindCanvas
  \/ GuardedStart
  \/ Build
  \/ (startup.pc = "running" /\ Next)

BootSpec == BootInit /\ [][BootNext]_vars

\* ================================================================ claims
GravityDisabled == gravity.x = 0 /\ gravity.y = 0 /\ gravity.scale = 0
GravityEnabled == gravity.scale > 0
SideWalls == {"top", "left", "right"}
AllStill == \A p \in Parts : velocity[p] = ZeroVec /\ angularVelocity[p] = 0
InsideMargins(pos, w, h) ==
  /\ EDGE_MARGIN <= pos.x /\ pos.x <= w - EDGE_MARGIN
  /\ EDGE_MARGIN <= pos.y /\ pos.y <= h - EDGE_MARGIN

\* C1: landing fires exactly once.  The first collisionStart event with a
\* (bottom wall, non-static body) pair finds gravity enabled and the mode
\* Partial and leaves gravity disabled, the latch set and the mode Full after
\* exactly one rebuild; every later such event leaves gravity, the latch, the
\* mode, the colliders and the part velocities as they were.
C1_LandingFiresOnce ==
  [][ lastEvent' = "collisionBottom" =>
        /\ qualifying = 0 =>
              /\ GravityEnabled /\ ~boundsActivated /\ ~gravityDisabledOnGround
              /\ GravityDisabled' /\ boundsActivated' /\ gravityDisabledOnGround'
              /\ nextId' = nextId + 4
        /\ qualifying >= 1 =>
              UNCHANGED <<gravity, gravityDisabledOnGround, boundsActivated, bounds,
                          worldBodies, nextId, velocity, angularVelocity>> ]_vars

\* a second qualifying event has been handled, after a resize and a step
C1_Witness ==
  /\ qualifying = 2 /\ lastEvent = "collisionBottom"
  /\ boundsActivated /\ GravityDisabled
  /\ \E p \in Parts : velocity[p] # ZeroVec

\* C2: while no (bottom wall, non-static body) pair has been reported the
\* mode is Partial with only the bottom collider, gravity scale is positive,
\* no part carries a force, and a beforeUpdate step changes no force and no
\* velocity, wherever the parts are.
C2_FallingUntouched ==
  /\ [](qualifying = 0 =>
          /\ ~boundsActivated
          /\ bounds.bottom # NoBody
          /\ \A s \in SideWalls : bounds[s] = NoBody
          /\ gravity.scale > 0
          /\ \A p \in Parts : force[p] = ZeroVec)
  /\ [][ (qualifying' = 0 /\ lastEvent' = "beforeUpdate") =>
            UNCHANGED <<force, velocity, angularVelocity, position>> ]_vars

\* a beforeUpdate step ran before landing on a moving part outside the margins
C2_Witness ==
  /\ qualifying = 0 /\ lastEvent = "beforeUpdate"
  /\ \E p \in Parts : Outside(position[p], canvasW, canvasH) /\ velocity[p] # ZeroVec

\* C3: between callbacks gravity is disabled iff the mode is Full iff the
\* latch is set, and neither the mode nor gravity nor the latch ever goes back.
C3_GravityModeLatchTogether ==
  /\ []( /\ GravityDisabled <=> boundsActivated
         /\ boundsActivated <=> gravityDisabledOnGround
         /\ GravityEnabled <=> ~boundsActivated )
  /\ [][ /\ boundsActivated => boundsActivated'
         /\ GravityDisabled => GravityDisabled'
         /\ gravityDisabledOnGround => gravityDisabledOnGround' ]_vars

\* Landed, then hit again, and stepped
C3_Witness ==
  /\ boundsActivated /\ GravityDisabled /\ gravityDisabledOnGround
  /\ lastEvent = "update" /\ qualifying = 2

\* C4: right after the landing transition every ragdoll part has linear
\* velocity (0,0) and angular velocity 0.
C4_StillAfterLanding ==
  (lastEvent = "collisionBottom" /\ qualifying = 1) => AllStill

\* the landing handler has just returned
C4_Witness ==
  lastEvent = "collisionBottom" /\ qualifying = 1 /\ boundsActivated /\ AllStill

\* C5 as stated: in Full mode, for every viewport size, a beforeUpdate step
\* applies a force with strictly positive x-component to every part with
\* x < EDGE_MARGIN and multiplies its velocity by RESTORE_VELOCITY_DAMP.
C5_AsStated ==
  [][ (boundsActivated /\ lastEvent' = "beforeUpdate") =>
        \A p \in Parts :
          position[p].x < EDGE_MARGIN =>
            /\ force'[p].x - force[p].x > 0
            /\ 10 * velocity'[p].x = RESTORE_VELOCITY_DAMP * velocity[p].x
            /\ 10 * velocity'[p].y = RESTORE_VELOCITY_DAMP * velocity[p].y ]_vars

\* C5 amended: the same for every part with x < EDGE_MARGIN and x < width / 2
\* (every part left of the margin when width >= 2 * EDGE_MARGIN).
C5_LeftNudge ==
  [][ (boundsActivated /\ lastEvent' = "beforeUpdate") =>
        \A p \in Parts :
          (position[p].x < EDGE_MARGIN /\ 2 * position[p].x < canvasW) =>
            /\ force'[p].x - force[p].x > 0
            /\ 10 * velocity'[p].x = RESTORE_VELOCITY_DAMP * velocity[p].x
            /\ 10 * velocity'[p].y = RESTORE_VELOCITY_DAMP * velocity[p].y ]_vars

\* a moving part left of the margin has just been nudged and damped
C5_Witness ==
  /\ boundsActivated /\ lastEvent = "beforeUpdate"
  /\ \E p \in Parts :
       /\ position[p].x < EDGE_MARGIN /\ 2 * position[p].x < canvasW
       /\ force[p].x > 0
       /\ velocity[p] = [x |-> 6, y |-> -3]

\* C6: a beforeUpdate step in Full mode applies no force to a part inside all
\* four margins (boundary values included) and leaves its velocity unchanged.
C6_InsideUntouched ==
  [][ (boundsActivated /\ lastEvent' = "beforeUpdate") =>
        \A p \in Parts :
          InsideMargins(position[p], canvasW, canvasH) =>
            /\ force'[p] = force[p]
            /\ velocity'[p] = velocity[p]
            /\ angularVelocity'[p] = angularVelocity[p] ]_vars

\* a step ran with one moving part on the near margins and one on the far margins
C6_Witness ==
  /\ boundsActivated /\ lastEvent = "beforeUpdate"
  /\ canvasW = 40 /\ canvasH = 30
  /\ position[head] = [x |-> EDGE_MARGIN, y |-> EDGE_MARGIN]
  /\ position[torso] = [x |-> canvasW - EDGE_MARGIN, y |-> canvasH - EDGE_MARGIN]
  /\ \A p \in Parts : velocity[p] = [x |-> 10, y |-> -5] /\ force[p] = ZeroVec

\* C7: a resize keeps the mode; in Full mode it installs four new colliders
\* of thickness 100 centred at (w/2, h+50), (w/2, -50), (-50, h/2) and
\* (w+50, h/2) for the new size, in Partial mode only the bottom one.
\* (x2, y2 are the doubled centre coordinates.)
C7_ResizeRebuilds ==
  [][ lastEvent' = "resize" =>
        /\ boundsActivated' = boundsActivated
        /\ BoundIds(bounds') \cap BoundIds(bounds) = {}
        /\ bounds'.bottom.id # 0
        /\ bounds'.bottom.x2 = canvasW' /\ bounds'.bottom.y2 = 2 * (canvasH' + 50)
        /\ bounds'.bottom.w = canvasW' + 200 /\ bounds'.bottom.h = 100
        /\ boundsActivated =>
              /\ Cardinality(BoundIds(bounds')) = 4
              /\ bounds'.top.x2 = canvasW' /\ bounds'.top.y2 = 2 * (-50)
              /\ bounds'.top.w = canvasW' + 200 /\ bounds'.top.h = 100
              /\ bounds'.left.x2 = 2 * (-50) /\ bounds'.left.y2 = canvasH'
              /\ bounds'.left.w = 100 /\ bounds'.left.h = canvasH' + 200
              /\ bounds'.right.x2 = 2 * (canvasW' + 50) /\ bounds'.right.y2 = canvasH'
              /\ bounds'.right.w = 100 /\ bounds'.right.h = canvasH' + 200
        /\ ~boundsActivated =>
              \A s \in SideWalls : bounds'[s] = NoBody ]_vars

\* a resize in Full mode to the narrow viewport has just run
C7_Witness ==
  /\ lastEvent = "resize" /\ boundsActivated
  /\ canvasW = 10 /\ canvasH = 30
  /\ bounds.right.x2 = 120

\* C8: a resize changes only the canvas size and the colliders: gravity, the
\* latch, the mode and every part's position, velocity and force stay.
C8_ResizeFrame ==
  [][ lastEvent' = "resize" =>
        UNCHANGED <<gravity, gravityDisabledOnGround, boundsActivated, position,
                    velocity, angularVelocity, force, mass, qualifying>> ]_vars

\* a resize ran while Falling, with moving parts and gravity still on
C8_Witness ==
  /\ lastEvent = "resize" /\ ~boundsActivated /\ ~gravityDisabledOnGround
  /\ GravityEnabled /\ nextId > torso + 1
  /\ \E p \in Parts : velocity[p] # ZeroVec

\* C9: bounds.bottom is always present; top, left and right are all present
\* or all absent, and present exactly when boundsActivated.
C9_BoundsShape ==
  /\ bounds.bottom # NoBody
  /\ \/ \A s \in SideWalls : bounds[s] # NoBody
     \/ \A s \in SideWalls : bounds[s] = NoBody
  /\ boundsActivated <=> (\A s \in SideWalls : bounds[s] # NoBody)

\* all four walls stand after a landing and a later resize
C9_Witness ==
  /\ boundsActivated /\ lastEvent = "resize"
  /\ \A s \in Sides : bounds[s] # NoBody

\* C10: the static bodies of the world are exactly the colliders of the
\* bounds record, 1 in Partial mode and 4 in Full mode; no collider of an
\* earlier createBounds call is still in the world.
C10_WorldHoldsBounds ==
  /\ {b \in worldBodies : isStatic(b)} = BoundIds(bounds)
  /\ Cardinality({b \in worldBodies : isStatic(b)}) = (IF boundsActivated THEN 4 ELSE 1)
  /\ Parts \subseteq worldBodies

\* after a Partial resize, a landing and a Full resize only the last four remain
C10_Witness ==
  /\ boundsActivated /\ lastEvent = "resize" /\ nextId = 13
  /\ {b \in worldBodies : isStatic(b)} = 9..12

\* centre and size of a collider, without its identity
Placement(b) == [x2 |-> b.x2, y2 |-> b.y2, w |-> b.w, h |-> b.h]
Placements(bs) == [s \in Sides |-> Placement(bs[s])]
StaticBodies(world) == {b \in world : isStatic(b)}

\* C11: createBounds is idempotent in its result.  From every reachable
\* state, for either mode and every canvas size, a second call with the same
\* arguments leaves the mode, the number of colliders in the world and every
\* collider's centre and size as the first call left them; and a resize that
\* keeps the canvas size leaves them as it found them.
C11_RebuildIdempotent ==
  /\ [](\A full \in BOOLEAN : \A v \in Viewports :
          LET once == createBounds(BoundaryState, full, v[1], v[2])
              twice == createBounds(once, full, v[1], v[2])
          IN /\ twice.boundsActivated = once.boundsActivated
             /\ Placements(twice.bounds) = Placements(once.bounds)
             /\ Cardinality(StaticBodies(twice.worldBodies))
                  = Cardinality(StaticBodies(once.worldBodies)))
  /\ [][ (lastEvent' = "resize" /\ canvasW' = canvasW /\ canvasH' = canvasH) =>
            /\ boundsActivated' = boundsActivated
            /\ Placements(bounds') = Placements(bounds)
            /\ Cardinality(StaticBodies(worldBodies'))
                 = Cardinality(StaticBodies(worldBodies)) ]_vars

\* Full mode after a resize: the four walls stand where a further rebuild
\* for the same size would put them, under fresh identities
C11_Witness ==
  /\ boundsActivated /\ lastEvent = "resize"
  /\ LET again == createBounds(BoundaryState, TRUE, canvasW, canvasH)
     IN /\ Placements(again.bounds) = Placements(bounds)
        /\ BoundIds(again.bounds) \cap BoundIds(bounds) = {}
        /\ Cardinality(StaticBodies(again.worldBodies)) = 4

\* C15: in Falling a collisionStart event triggers the landing exactly when
\* one of its pairs, at any index, joins the current bottom wall and a
\* non-static body; any other event leaves gravity, the latch, the mode, the
\* colliders and every velocity unchanged.
C15_LandingTrigger ==
  [][ (~gravityDisabledOnGround /\ lastEvent' \in {"collisionBottom", "collisionOther"}) =>
        /\ lastEvent' = "collisionBottom" =>
              /\ gravityDisabledOnGround' /\ boundsActivated' /\ GravityDisabled'
              /\ \A p \in Parts : velocity'[p] = ZeroVec /\ angularVelocity'[p] = 0
        /\ lastEvent' = "collisionOther" =>
              UNCHANGED <<gravity, gravityDisabledOnGround, boundsActivated, bounds,
                          worldBodies, nextId, velocity, angularVelocity>> ]_vars

\* a collision among the parts only was handled while Falling, parts moving
C15_Witness ==
  /\ lastEvent = "collisionOther" /\ qualifying = 0
  /\ ~boundsActivated /\ GravityEnabled
  /\ \A p \in Parts : velocity[p] # ZeroVec

\* the signed margin distances of the violated edges, summed per axis
MarginSumX(pos, w) ==
  (IF pos.x < EDGE_MARGIN THEN EDGE_MARGIN - pos.x ELSE 0)
    + (IF pos.x > w - EDGE_MARGIN THEN (w - EDGE_MARGIN) - pos.x ELSE 0)
MarginSumY(pos, h) ==
  (IF pos.y < EDGE_MARGIN THEN EDGE_MARGIN - pos.y ELSE 0)
    + (IF pos.y > h - EDGE_MARGIN THEN (h - EDGE_MARGIN) - pos.y ELSE 0)

\* C16: in Full mode the force a beforeUpdate step applies to a part is, on
\* each axis, mass x RESTORE_FORCE_BASE x the sum of the signed margin
\* distances of the violated edges of that axis, unclamped.
C16_ForceFormula ==
  [][ (boundsActivated /\ lastEvent' = "beforeUpdate") =>
        \A p \in Parts :
          /\ force'[p].x - force[p].x
               = mass[p] * RESTORE_FORCE_BASE * MarginSumX(position[p], canvasW)
          /\ force'[p].y - force[p].y
               = mass[p] * RESTORE_FORCE_BASE * MarginSumY(position[p], canvasH) ]_vars

\* on a narrow canvas one part was pushed back from the bottom right corner on
\* both axes while the other, beyond both the left and the right margin, got
\* contributions that cancel
C16_Witness ==
  /\ boundsActivated /\ lastEvent = "beforeUpdate"
  /\ canvasW = 10 /\ canvasH = 30
  /\ \E p, q \in Parts :
       /\ position[p] = [x |-> 35, y |-> 25]
       /\ force[p] = [x |-> -62 * mass[p], y |-> -2 * mass[p]]
       /\ position[q] = [x |-> 5, y |-> 6]
       /\ force[q] = ZeroVec

\* C17: in Full mode a beforeUpdate step multiplies both velocity components
\* of a part by RESTORE_VELOCITY_DAMP once when the part is outside on some
\* edge, however many edges and whatever the accumulated force, and leaves
\* the velocity of a part outside on no edge as it was.
C17_DampOnce ==
  [][ (boundsActivated /\ lastEvent' = "beforeUpdate") =>
        \A p \in Parts :
          IF InsideMargins(position[p], canvasW, canvasH)
          THEN velocity'[p] = velocity[p]
          ELSE /\ 10 * velocity'[p].x = RESTORE_VELOCITY_DAMP * velocity[p].x
               /\ 10 * velocity'[p].y = RESTORE_VELOCITY_DAMP * velocity[p].y ]_vars

\* a moving part outside two opposite edges, with zero net force, was damped
C17_Witness ==
  /\ boundsActivated /\ lastEvent = "beforeUpdate"
  /\ canvasW = 10 /\ canvasH = 30
  /\ \E p \in Parts :
       /\ position[p] = [x |-> 5, y |-> 6]
       /\ force[p] = ZeroVec
       /\ velocity[p] = [x |-> 6, y |-> -3]

\* C12 as stated: in a Full-mode beforeUpdate pass a fault on one part's
\* state never leaves the handler, and every part that did not fault is
\* nudged and damped exactly as in a pass without faults.
C12_AsStated ==
  [][ (boundsActivated /\ lastEvent' \in {"beforeUpdate", "beforeUpdateThrew"}) =>
        /\ lastEvent' = "beforeUpdate"
        /\ \A q \in Parts :
             fault'[q] = "none" =>
               /\ force'[q].x - force[q].x
                    = mass[q] * RESTORE_FORCE_BASE * MarginSumX(position[q], canvasW)
               /\ force'[q].y - force[q].y
                    = mass[q] * RESTORE_FORCE_BASE * MarginSumY(position[q], canvasH)
               /\ IF InsideMargins(position[q], canvasW, canvasH)
                  THEN velocity'[q] = velocity[q]
                  ELSE /\ 10 * velocity'[q].x = RESTORE_VELOCITY_DAMP * velocity[q].x
                       /\ 10 * velocity'[q].y = RESTORE_VELOCITY_DAMP * velocity[q].y ]_vars

\* C13 as stated: when the Matter global is unavailable at startup the
\* script never terminates and, once past its guarded start, has logged a
\* diagnostic for it; when the canvas element is missing the script goes on
\* with a fallback canvas and a logged diagnostic.
C13_AsStated ==
  /\ ~startup.matter =>
       /\ startup.pc # "crashed"
       /\ startup.pc \in {"build", "running"} => "matter-unavailable" \in startup.log
  /\ startup.pc \in {"start", "build", "running"} =>
       /\ startup.canvas \in {"dom", "fallback"}
       /\ startup.canvas = "fallback" => "canvas-fallback" \in startup.log

\* C14: a World.remove that fails for an old collider during createBounds is
\* tolerated: the rebuild still resets the bounds record to a complete new
\* collider set for the requested mode (the bottom wall for the new canvas,
\* the side walls exactly in Full mode, none of them an old collider), puts
\* every new collider into the world and records the mode in boundsActivated.
C14_RemoveFailureTolerated ==
  [][ lastEvent' = "resizeRemoveFailed" =>
        /\ boundsActivated' = boundsActivated
        /\ bounds'.bottom # NoBody
        /\ bounds'.bottom.x2 = canvasW' /\ bounds'.bottom.y2 = 2 * canvasH' + 100
        /\ bounds'.bottom.w = canvasW' + 200
        /\ \A s \in SideWalls : (bounds'[s] # NoBody) <=> boundsActivated'
        /\ Cardinality(BoundIds(bounds')) = (IF boundsActivated' THEN 4 ELSE 1)
        /\ BoundIds(bounds') \cap (worldBodies \cup BoundIds(bounds)) = {}
        /\ BoundIds(bounds') \subseteq worldBodies' ]_vars

\* a Full-mode rebuild has just run although the removal of every old wall
\* failed: the four old walls are still in the world next to the four new ones
C14_Witness ==
  /\ lastEvent = "resizeRemoveFailed" /\ boundsActivated
  /\ Cardinality(StaticBodies(worldBodies) \ BoundIds(bounds)) >= 4
  /\ BoundIds(bounds) \subseteq worldBodies

\* C19 as stated: the latch is set only after the Full-mode rebuild, so the
\* system is never left with the latch set and gravity disabled while the
\* mode is still Partial, whether or not the rebuild completes.
C19_AsStated ==
  (gravityDisabledOnGround /\ GravityDisabled) => boundsActivated

====
